---- MODULE Spec2Model ----
(***************************************************************************)
(* A model of imagecatalog: the Catalog layout engine (a subclass of       *)
(* fpdf.FPDF) and the command line entry point.                            *)
(*                                                                         *)
(* Lengths are exact rationals: every length is an integer number of       *)
(* 1/Scale millimetres, and Scale is a multiple of every grid size the     *)
(* model can divide by, so that epw / cols and (eph - 10) / rows are       *)
(* exact.  (The program computes in binary floating point; rounding is     *)
(* not modelled.)                                                          *)
(*                                                                         *)
(* The primitives inherited from FPDF (add_page, cell, multi_cell, ln,     *)
(* will_page_break) are modelled by their documented effect on the         *)
(* cursor, the page count and the automatic page break.                    *)
(***************************************************************************)
EXTENDS Integers, Sequences, FiniteSets, TLC

\* ------------------------------------------------------------------ bounds
MaxGrid == 2        \* largest rows / cols value tried
MaxImages == 5      \* longest image list
MaxNoteLines == 2   \* most explicit lines in a note
MaxPrePages == 1    \* most explicit add_page() calls before build_table
MaxPixels == 4      \* largest pixel width / height of an image fitted alone
MaxRegion == 6      \* largest region width / height fitted alone, in half mm
MaxRowImages == 3   \* longest image list of a table built after another
MaxSeqPages == 2    \* add_page() between tables only below this page count

\* ------------------------------------------------------- program constants
HeaderCellH == 10   \* header(): self.cell(0, 10, self.title, ...)
TableReserve == 10  \* build_table: h = (self.eph - 10) / rows
FontSizePt == 8     \* _build_cell: set_font("helvetica", ..., size=8)
LabelPad == 2       \* _build_cell: h_lbl = self.font_size + 2
NotePad == 1        \* _build_cell: h_nte = lines * self.font_size + 1
DefaultMarginMm == 10  \* FPDF.__init__: page margins of 1 cm
DefaultRows == 4    \* main: DEFAULTS["rows"]
DefaultCols == 3    \* main: DEFAULTS["cols"]

\* ------------------------------------------------------------------ units
\* The least length divisor that every grid size the model divides by
\* (1..MaxGrid and the CLI defaults) divides.
GridLCM ==
    CHOOSE n \in 1..(DefaultRows * DefaultCols * MaxGrid * MaxGrid) :
        /\ n % DefaultRows = 0
        /\ n % DefaultCols = 0
        /\ \A k \in 1..MaxGrid : n % k = 0
        /\ \A m \in 1..(n - 1) :
              ~(m % DefaultRows = 0 /\ m % DefaultCols = 0
                  /\ \A k \in 1..MaxGrid : m % k = 0)

\* Length units per millimetre.
Scale == 100 * GridLCM

Max(a, b) == IF a >= b THEN a ELSE b

CeilDiv(a, b) == (a + b - 1) \div b

\* ------------------------------------------------------------------ inputs
\* An image reference: a path (str, pathlib.Path or bytes: PathLike) or an
\* in-memory PIL image.  name is the path's last component, or the image's
\* filename attribute (NoFilename when it has none); open is what
\* PIL.Image.open does with a path; px is the decoded image's (width,
\* height) in pixels, <<0, 0>> where nothing is decoded.
NoFilename == "<no filename attribute>"

Photo ==
    [kind |-> "str", name |-> "photo1.jpg",
     open |-> "ok", px |-> <<4, 3>>]

Missing ==
    [kind |-> "Path", name |-> "nothing.jpg",
     open |-> "FileNotFoundError", px |-> <<0, 0>>]

NotAnImage ==
    [kind |-> "str", name |-> "notes.txt",
     open |-> "UnidentifiedImageError", px |-> <<0, 0>>]

BytesMissing ==
    [kind |-> "bytes", name |-> "raw.png",
     open |-> "FileNotFoundError", px |-> <<0, 0>>]

Directory ==
    [kind |-> "str", name |-> "album",
     open |-> "IsADirectoryError", px |-> <<0, 0>>]

Scan ==
    [kind |-> "Image", name |-> "scan.tif",
     open |-> "ok", px |-> <<3, 4>>]

Anonymous ==
    [kind |-> "Image", name |-> NoFilename,
     open |-> "ok", px |-> <<2, 2>>]

ImagePool == <<Photo, Missing, Scan, NotAnImage, Anonymous, BytesMissing, Directory>>

Repeat(v, n) == [i \in 1..n |-> v]

SeqsUpTo(S, n) == UNION {[1..k -> S] : k \in 0..n}

\* The list of n images that walks the pool from a starting image on.
Walk(start, n) == [i \in 1..n |-> ImagePool[((start + i - 2) % Len(ImagePool)) + 1]]

\* The image lists tried: every walk of the pool, and in-memory images only.
ImageLists ==
    {Walk(start, n) : start \in 1..Len(ImagePool), n \in 0..MaxImages}
        \cup {Repeat(Anonymous, n) : n \in 0..MaxImages}

\* Supplied labels: "Image 0", "Image 1", ... as in the tests.
LabelText == <<"Image 0", "Image 1", "Image 2", "Image 3", "Image 4",
               "Image 5", "Image 6", "Image 7", "Image 8", "Image 9">>

\* An optional argument: None, or a supplied list.
None == [given |-> FALSE, v |-> <<>>]

Some(list) == [given |-> TRUE, v |-> list]

LabelChoices(n) ==
    {None} \cup {Some(SubSeq(LabelText, 1, k)) : k \in {n, n + 1}}

\* A note is the sequence of its explicit lines (short enough not to wrap);
\* the empty string is <<>>.
NoteOf(k) == [j \in 1..k |-> "note line"]

NoteChoices(n) ==
    {None} \cup {Some(Repeat(NoteOf(k), n)) : k \in 1..MaxNoteLines}
           \cup {Some(Repeat(NoteOf(1), n + 1))}

\* A rows / cols argument: a Python int or float, its value in tenths.
Num(t, v10) == [t |-> t, v10 |-> v10]

RowChoices ==
    {Num("int", 10 * k) : k \in -1..MaxGrid}
        \cup {Num("float", 10), Num("float", 11)}

ColChoices ==
    {Num("int", 10 * k) : k \in 0..MaxGrid}
        \cup {Num("float", 20), Num("float", 25)}

Orientations == {"portrait", "landscape"}

A4 == <<210, 297>>

\* A4, and a small custom (width, height) format.
Formats == {A4, <<80, 49>>}

\* ---------------------------------------------------------------- Catalog
\* Catalog.__init__ (FPDF.__init__): the page size by orientation and
\* format (a (width, height) tuple in mm; "A4" is 210 x 297), margins of
\* 1 cm, set_auto_page_break(True, 2 * margin), no page yet, the cursor at
\* the margins.  k is the number of length units per mm.
NewCatalog(orientation, format) ==
    [live |-> TRUE, k |-> Scale,
     w |-> Scale * (IF orientation = "portrait" THEN format[1] ELSE format[2]),
     h |-> Scale * (IF orientation = "portrait" THEN format[2] ELSE format[1]),
     l_margin |-> Scale * DefaultMarginMm, t_margin |-> Scale * DefaultMarginMm,
     r_margin |-> Scale * DefaultMarginMm, b_margin |-> 2 * Scale * DefaultMarginMm,
     page |-> 0, x |-> Scale * DefaultMarginMm, y |-> Scale * DefaultMarginMm,
     lasth |-> 0, draws |-> <<>>, cellcalls |-> <<>>]

NoCatalog ==
    [live |-> FALSE, k |-> 0, w |-> 0, h |-> 0, l_margin |-> 0, t_margin |-> 0,
     r_margin |-> 0, b_margin |-> 0, page |-> 0, x |-> 0, y |-> 0,
     lasth |-> 0, draws |-> <<>>, cellcalls |-> <<>>]

\* FPDF.epw, FPDF.eph: the effective page width and height.
Epw(c) == c.w - c.l_margin - c.r_margin

Eph(c) == c.h - c.t_margin - c.b_margin

\* FPDF.page_break_trigger
PageBreakTrigger(c) == c.h - c.b_margin

\* A page break already when the cell ends exactly at the trigger.
WillPageBreakAtTrigger(c, height) == c.y + height >= PageBreakTrigger(c)

\* FPDF.will_page_break(height)
WillPageBreak(c, height) == c.y + height > PageBreakTrigger(c)

\* FPDF.font_size after set_font(..., size=8): 8 pt in length units
\* (1 pt = 25.4/72 mm).
FontSize(c) == (FontSizePt * 254 * c.k) \div 720

\* FPDF.ln() with no height: to the left margin, down by the height of the
\* last cell printed.
Ln(c) == [c EXCEPT !.x = c.l_margin, !.y = c.y + c.lasth]

\* Catalog.header: a cell of height 10 with the title, then ln().
Header(c) == Ln([c EXCEPT !.x = c.w - c.r_margin, !.lasth = HeaderCellH * c.k])

\* FPDF.add_page: a new page, the cursor at the top left margin, then the
\* header.  (Catalog.footer draws at a fixed offset from the bottom with
\* page breaks disabled; the cursor it leaves is overwritten here.)
AddPage(c) ==
    Header([c EXCEPT !.page = c.page + 1, !.x = c.l_margin, !.y = c.t_margin])

\* FPDF automatic page break, done by cell / multi_cell before they draw
\* a line of the given height: add a page and keep x.
PerformPageBreakIfNeedBe(c, height) ==
    IF WillPageBreak(c, height) THEN [AddPage(c) EXCEPT !.x = c.x] ELSE c

\* One draw instruction given to the renderer: what, on which page, where
\* and how large.
Draw(c, op, width, height, txt, note) ==
    [op |-> op, page |-> c.page, x |-> c.x, y |-> c.y,
     w |-> width, h |-> height, txt |-> txt, note |-> note]

\* A primitive draws at the cursor it has after its automatic page break.
Drawn(c, op, width, height, txt, note) ==
    [c EXCEPT !.draws = Append(c.draws, Draw(c, op, width, height, txt, note))]

\* FPDF.cell(w, h, txt, ln=2), and each line of a multi_cell: the line is
\* drawn and the cursor moves below it.
CellBelow(c, op, width, height, txt, note) ==
    [Drawn(PerformPageBreakIfNeedBe(c, height), op, width, height, txt, note)
        EXCEPT !.y = @ + height, !.lasth = height]

\* FPDF.multi_cell(w, h, txt, ln=2) for a text of n lines.
RECURSIVE MultiCellBelow(_, _, _, _, _, _)
MultiCellBelow(c, op, width, height, note, n) ==
    IF n = 0 THEN c
    ELSE MultiCellBelow(CellBelow(c, op, width, height, "", note),
                        op, width, height, note, n - 1)

\* FPDF.multi_cell(w, h, border=1, ln=3) with no text: one line; the cursor
\* ends to the right of the cell, at the cell's top.
MultiCellRight(c, op, width, height) ==
    [Drawn(PerformPageBreakIfNeedBe(c, height), op, width, height, "", <<>>)
        EXCEPT !.x = @ + width, !.lasth = height]

\* len(self.multi_cell(w=w, txt=note, split_only=True)): an empty text is
\* one (empty) line.
NoteLineCount(note) == IF Len(note) = 0 THEN 1 ELSE Len(note)

Fallback == "[image name unavailable]"

\* Catalog._get_image_name: Path(image).name; on TypeError (Path() takes a
\* str or a PathLike, not bytes and not an image) image.filename; on
\* AttributeError the fallback.
GetImageName(image) ==
    IF image.kind \in {"str", "Path"} THEN image.name
    ELSE IF image.kind = "Image" /\ image.name # NoFilename THEN image.name
    ELSE Fallback

\* The exceptions _insert_image catches around PIL.Image.open.
CaughtOpenErrors == {"UnidentifiedImageError", "FileNotFoundError"}

\* PIL.Image.open(img) for a path; an in-memory image is not opened.
OpenResult(img) == IF img.kind = "Image" THEN "ok" ELSE img.open

\* Catalog._insert_label: cell(w, h, txt, align="C", border=1, ln=2)
InsertLabel(c, width, height, txt) ==
    CellBelow(c, "label", width, height, txt, <<>>)

\* int(a / b) for a length a and a positive number b, as a length: whole
\* mm (k units each), truncated towards zero.
TruncMm(a, b, k) ==
    IF a >= 0 THEN (a \div (b * k)) * k ELSE -(((-a) \div (b * k)) * k)

\* _dims_to_fit: (im_w / im_h) >= (w / h), for h # 0.
WidthLimited(px, width, height) ==
    IF height > 0 THEN px[1] * height >= width * px[2]
    ELSE px[1] * height <= width * px[2]

\* Catalog._dims_to_fit: scale = w / im_w or h / im_h, and
\* (int(im_w * scale), int(im_h * scale)).
DimsToFit(px, width, height, k) ==
    IF WidthLimited(px, width, height)
    THEN <<TruncMm(px[1] * width, px[1], k), TruncMm(px[2] * width, px[1], k)>>
    ELSE <<TruncMm(px[1] * height, px[2], k), TruncMm(px[2] * height, px[2], k)>>

\* FPDF.image(x, y, w, h), the size the image gets on the page: a width or
\* height of 0 is computed from the other one by the image's aspect ratio,
\* and both being 0 give the pixel size at 72 dpi.
ImageSize(dims, px, k) ==
    IF dims[1] = 0 /\ dims[2] = 0
    THEN <<(px[1] * 254 * k) \div 720, (px[2] * 254 * k) \div 720>>
    ELSE IF dims[1] = 0 THEN <<(dims[2] * px[1]) \div px[2], dims[2]>>
    ELSE IF dims[2] = 0 THEN <<dims[1], (dims[1] * px[2]) \div px[1]>>
    ELSE dims

\* A draw instruction at a given position instead of the cursor.
DrawnAt(c, op, x, y, dims, txt) ==
    [c EXCEPT !.draws =
        Append(c.draws, [op |-> op, page |-> c.page, x |-> x, y |-> y,
                         w |-> dims[1], h |-> dims[2], txt |-> txt,
                         note |-> <<>>])]

\* _insert_image: self.image(img, x, y, w=im_w, h=im_h) with
\* x = self.x + (w - im_w) / 2 and y = self.y + (h - im_h) / 2; the cursor
\* stays.
PlaceImage(c, width, height, dims, txt) ==
    DrawnAt(c, "picture", c.x + (width - dims[1]) \div 2,
            c.y + (height - dims[2]) \div 2, dims, txt)

\* _insert_image when the image is there: the picture, then an empty
\* multi_cell of the region's size; w / h in _dims_to_fit is a
\* ZeroDivisionError for a region of height 0.
InsertDecoded(c, width, height, img) ==
    IF height = 0 THEN [c |-> c, err |-> "ZeroDivisionError"]
    ELSE [c |-> CellBelow(PlaceImage(c, width, height,
                                     DimsToFit(img.px, width, height, c.k),
                                     GetImageName(img)),
                          "image", width, height, GetImageName(img), <<>>),
          err |-> "ok"]

\* Catalog._insert_image: the image, or the image name as centred text
\* when opening fails with a caught exception.  Any other exception leaves
\* the method.
InsertImage(c, width, height, img) ==
    IF OpenResult(img) = "ok" THEN InsertDecoded(c, width, height, img)
    ELSE IF OpenResult(img) \in CaughtOpenErrors
    THEN [c |-> CellBelow(c, "text", width, height, GetImageName(img), <<>>),
          err |-> "ok"]
    ELSE [c |-> c, err |-> OpenResult(img)]

\* Catalog._insert_note: multi_cell(w, txt=txt, ln=2), lines of the font's
\* height.
InsertNote(c, width, txt) ==
    MultiCellBelow(c, "note", width, FontSize(c), txt, NoteLineCount(txt))

\* _build_cell: h_lbl, h_nte and h_img.
LabelHeight(c) == FontSize(c) + LabelPad * c.k

NoteHeight(c, note) == NoteLineCount(note) * FontSize(c) + NotePad * c.k

ImageHeight(c, note, height) == height - LabelHeight(c) - NoteHeight(c, note)

\* The border drawn where the note left the cursor.
BorderCellNoRestore(c, x_start, y_start, width, height) ==
    MultiCellRight(c, "border", width, height)

\* _build_cell, its last two lines: the cursor back at the cell's start,
\* then the border, multi_cell(w=w, h=h, border=1, ln=3).
BorderCell(c, x_start, y_start, width, height) ==
    MultiCellRight([c EXCEPT !.x = x_start, !.y = y_start], "border", width, height)

\* The cursor and page count on entry to and on return from _build_cell.
CellCall(c, done, h_img) ==
    [done EXCEPT !.cellcalls =
        Append(@, [x0 |-> c.x, y0 |-> c.y, page0 |-> c.page,
                   x1 |-> done.x, y1 |-> done.y, page1 |-> done.page,
                   h_img |-> h_img])]

\* _build_cell from the image on; an exception of _insert_image leaves it.
CellFromImage(c, r, note, width, height) ==
    IF r.err # "ok" THEN r
    ELSE [c |-> CellCall(c, BorderCell(InsertNote(r.c, width, note),
                                       c.x, c.y, width, height),
                         ImageHeight(c, note, height)),
          err |-> "ok"]

\* Catalog._build_cell
BuildCell(c, image, label, note, width, height) ==
    CellFromImage(c,
                  InsertImage(InsertLabel(c, width, LabelHeight(c), label),
                              width, ImageHeight(c, note, height), image),
                  note, width, height)

\* int(value): truncation towards zero.
PyInt(v) == IF v.v10 >= 0 THEN v.v10 \div 10 ELSE -((-v.v10) \div 10)

\* An error for every float, integer-valued or not.
VerifyIntRejectsFloat(v) == v.t = "float" \/ v.v10 # 10 * PyInt(v)

\* Catalog._verify_int: an error unless value == int(value).
VerifyIntFails(v) == v.v10 # 10 * PyInt(v)

\* Division of a length by a non-zero grid size (exact: see Scale).
LenDiv(a, n) == IF n > 0 THEN a \div n ELSE -(a \div (-n))

\* build_table, the loop body before the cell: a new page when the cell
\* would trigger a page break.
PageBreakBefore(c, height) == IF WillPageBreak(c, height) THEN AddPage(c) ELSE c

\* A cell drawn with no page open is an error of the renderer.
CellOnPage(c, image, label, note, width, height) ==
    IF c.page = 0 THEN [c |-> c, err |-> "FPDFException"]
    ELSE BuildCell(c, image, label, note, width, height)

\* The new line one image late.
NewLineAfterLate(c, i, cols) == IF (i - 1) % cols = 0 THEN Ln(c) ELSE c

\* build_table, the loop body after the cell: a new line after the last
\* column of the row.
NewLineAfter(c, i, cols) == IF i % cols = 0 THEN Ln(c) ELSE c

\* The loop of Catalog.build_table from the i-th image on (i = 1 is the
\* first): page break, cell, new line; an exception leaves the loop.
RECURSIVE TableLoop(_, _, _, _, _, _, _, _)
RECURSIVE LoopNext(_, _, _, _, _, _, _, _)
TableLoop(c, images, labels, notes, cols, width, height, i) ==
    IF i > Len(images) THEN [c |-> c, err |-> "ok"]
    ELSE LoopNext(CellOnPage(PageBreakBefore(c, height),
                             images[i], labels[i], notes[i], width, height),
                  images, labels, notes, cols, width, height, i)

LoopNext(r, images, labels, notes, cols, width, height, i) ==
    IF r.err # "ok" THEN r
    ELSE TableLoop(NewLineAfter(r.c, i, cols),
                   images, labels, notes, cols, width, height, i + 1)

\* build_table: the labels and notes used.
LabelsUsed(images, labels) ==
    IF labels.given THEN labels.v
    ELSE [i \in 1..Len(images) |-> GetImageName(images[i])]

NotesUsed(images, notes) ==
    IF notes.given THEN notes.v ELSE [i \in 1..Len(images) |-> <<>>]

\* The length check without the notes.
LengthMismatchLabelsOnly(images, labels, notes) ==
    labels.given /\ Len(labels.v) # Len(images)

\* build_table: the check that the supplied arguments are the same length.
LengthMismatch(images, labels, notes) ==
    \/ labels.given /\ Len(labels.v) # Len(images)
    \/ notes.given /\ Len(notes.v) # Len(images)

\* Catalog.build_table
BuildTable(c, images, labels, notes, rows, cols) ==
    IF LengthMismatch(images, labels, notes)
    THEN [c |-> c, err |-> "ValueError: same length"]
    ELSE IF VerifyIntFails(rows) \/ VerifyIntFails(cols)
    THEN [c |-> c, err |-> "ValueError: integer"]
    ELSE IF PyInt(cols) = 0 \/ PyInt(rows) = 0
    THEN [c |-> c, err |-> "ZeroDivisionError"]
    ELSE TableLoop(c, images,
                   LabelsUsed(images, labels), NotesUsed(images, notes),
                   PyInt(cols),
                   LenDiv(Epw(c), PyInt(cols)),
                   LenDiv(Eph(c) - TableReserve * c.k, PyInt(rows)),
                   1)

\* The parameters build_table declares (besides self).
BuildTableParams == {"images", "labels", "notes", "rows", "cols"}

\* A Python call of build_table: a keyword the signature does not declare
\* is a TypeError, raised before the body runs.
CallBuildTable(c, keywords, images, labels, notes, rows, cols) ==
    IF ~(keywords \subseteq BuildTableParams)
    THEN [c |-> c, err |-> "TypeError"]
    ELSE BuildTable(c, images, labels, notes, rows, cols)

\* ------------------------------------------------------------------ state
VARIABLES
    phase,  \* "start", "catalog" (constructed), "built", "saved", "exited"
    cat,    \* the Catalog object
    err,    \* how the last call ended: "ok" or the exception raised
    disk,   \* the output path: "absent", "existing" (an old file) or "pdf"
    last    \* the last call: its name, arguments and the Catalog before it

vars == <<phase, cat, err, disk, last>>

NoFlags == [autocontrast |-> FALSE, grayscale |-> FALSE, invert |-> FALSE]

Call(op, images, labels, notes, rows, cols, force, flags, pre, predisk) ==
    [op |-> op, images |-> images, labels |-> labels, notes |-> notes,
     rows |-> rows, cols |-> cols, force |-> force, flags |-> flags,
     pre |-> pre, predisk |-> predisk]

Init ==
    /\ phase = "start"
    /\ cat = NoCatalog
    /\ err = "ok"
    /\ disk \in {"absent", "existing"}
    /\ last = Call("none", <<>>, None, None, Num("int", 0), Num("int", 0),
                   FALSE, NoFlags, NoCatalog, disk)

\* catalog = Catalog(orientation, format=format)
Construct ==
    /\ phase = "start"
    /\ \E orientation \in Orientations, format \in Formats :
         cat' = NewCatalog(orientation, format)
    /\ phase' = "catalog"
    /\ err' = "ok"
    /\ last' = Call("Catalog", <<>>, None, None, Num("int", 0), Num("int", 0),
                    FALSE, NoFlags, cat, disk)
    /\ UNCHANGED disk

\* catalog.add_page()
AddPageCall ==
    /\ phase = "catalog"
    /\ cat.page < MaxPrePages
    /\ cat' = AddPage(cat)
    /\ err' = "ok"
    /\ last' = Call("add_page", <<>>, None, None, Num("int", 0), Num("int", 0),
                    FALSE, NoFlags, cat, disk)
    /\ UNCHANGED <<phase, disk>>

\* catalog.build_table(images, labels, notes, rows, cols)
BuildTableCall ==
    /\ phase = "catalog"
    /\ \E images \in ImageLists :
         \E labels \in LabelChoices(Len(images)), notes \in NoteChoices(Len(images)) :
           \E rows \in RowChoices, cols \in ColChoices :
             \E r \in {CallBuildTable(cat, {"rows", "cols"}, images, labels,
                                     notes, rows, cols)} :
                 /\ cat' = r.c
                 /\ err' = r.err
                 /\ last' = Call("build_table", images, labels, notes, rows,
                                 cols, FALSE, NoFlags, cat, disk)
    /\ phase' = "built"
    /\ UNCHANGED disk

\* catalog.output(fname), after a call that did not raise.
OutputCall ==
    /\ phase \in {"catalog", "built"}
    /\ err = "ok"
    /\ phase' = "saved"
    /\ disk' = "pdf"
    /\ last' = Call("output", <<>>, None, None, Num("int", 0), Num("int", 0),
                    FALSE, NoFlags, cat, disk)
    /\ UNCHANGED <<cat, err>>

\* The keywords main passes to build_table.
MainKeywords ==
    {"labels", "notes", "rows", "cols", "autocontrast", "grayscale", "invert"}

\* The file lists and CSV contents main is run on.
CliInputs == SeqsUpTo({Photo, NotAnImage}, 1)

\* main: rows and cols when not given (or 0: "args.rows or DEFAULTS[...]");
\* the defaults are flipped for landscape.
RowsOr(rows, orientation) ==
    IF rows # 0 THEN rows
    ELSE IF orientation = "landscape" THEN DefaultCols ELSE DefaultRows

ColsOr(cols, orientation) ==
    IF cols # 0 THEN cols
    ELSE IF orientation = "landscape" THEN DefaultRows ELSE DefaultCols

\* main, from the Catalog on: add_page, build_table with the image options
\* as keywords, then output.
MainBuild(files, fromCsv, orientation, rows, cols) ==
    CallBuildTable(
        AddPage(NewCatalog(IF orientation = "landscape" THEN "landscape"
                           ELSE "portrait", A4)),
        MainKeywords, files,
        IF fromCsv THEN Some([i \in 1..Len(files) |-> ""]) ELSE None,
        IF fromCsv THEN Some([i \in 1..Len(files) |-> <<>>]) ELSE None,
        Num("int", 10 * RowsOr(rows, orientation)),
        Num("int", 10 * ColsOr(cols, orientation)))

\* catalog.output(args.output) is reached when build_table returns.
MainOutput(r, d) ==
    [c |-> r.c, err |-> r.err, disk |-> IF r.err = "ok" THEN "pdf" ELSE d]

\* __main__.main on parsed arguments: -i files or --csv, --force,
\* --orientation, --rows, --cols (ints) and the image options.
MainRun(c, d, files, fromCsv, force, orientation, rows, cols, flags) ==
    IF d # "absent" /\ ~force
    THEN [c |-> c, err |-> "FileExistsError", disk |-> d]
    ELSE MainOutput(MainBuild(files, fromCsv, orientation, rows, cols), d)

Main ==
    /\ phase = "start"
    /\ \E files \in CliInputs, fromCsv \in BOOLEAN, force \in BOOLEAN :
         \E o \in {"none", "portrait", "landscape"}, rows \in 0..MaxGrid, cols \in 0..MaxGrid :
           \E flags \in [autocontrast : BOOLEAN, grayscale : BOOLEAN, invert : BOOLEAN] :
             \E res \in {MainRun(cat, disk, files, fromCsv, force, o, rows, cols, flags)} :
                 /\ cat' = res.c
                 /\ err' = res.err
                 /\ disk' = res.disk
                 /\ last' = Call("main", files, None, None, Num("int", 10 * rows),
                                 Num("int", 10 * cols), force, flags, cat, disk)
    /\ phase' = "exited"

Next ==
    \/ Construct
    \/ AddPageCall
    \/ BuildTableCall
    \/ OutputCall
    \/ Main

Spec == Init /\ [][Next]_vars

\* ------------------------------------------------- one image in one region
\* The regions an image is fitted into on its own: widths and heights
\* from half a millimetre on, in steps of half a millimetre.
RegionSizes == {j * (Scale \div 2) : j \in 1..MaxRegion}

\* In-memory images of every pixel size up to MaxPixels x MaxPixels.
Pictures ==
    {[kind |-> "Image", name |-> "scan.tif", open |-> "ok", px |-> <<a, b>>] :
        a \in 1..MaxPixels, b \in 1..MaxPixels}

FitCall(op, img, width, height, pre) ==
    [op |-> op, img |-> img, w |-> width, h |-> height, pre |-> pre]

\* A Catalog with one page, the cursor below the header, and the image
\* and the region of the call to come.
InitFit ==
    /\ phase = "region"
    /\ cat = AddPage(NewCatalog("portrait", A4))
    /\ err = "ok"
    /\ disk = "absent"
    /\ \E img \in Pictures, width \in RegionSizes, height \in RegionSizes :
         last = FitCall("none", img, width, height, cat)

\* self._insert_image(w=w, h=h, img=img)
InsertImageCall ==
    /\ phase = "region"
    /\ \E r \in {InsertImage(cat, last.w, last.h, last.img)} :
         /\ cat' = r.c
         /\ err' = r.err
    /\ phase' = "fitted"
    /\ last' = [last EXCEPT !.op = "_insert_image"]
    /\ UNCHANGED disk

NextFit == InsertImageCall

SpecFit == InitFit /\ [][NextFit]_vars

\* ------------------------------------------ several tables on one Catalog
\* The tables built one after the other: up to MaxRowImages images from
\* files that open, no labels or notes given, rows and cols positive ints.
TableImages == {Repeat(Photo, n) : n \in 0..MaxRowImages}

GridSizes == {Num("int", 10 * g) : g \in 1..MaxGrid}

\* The phase after a build_table call: one more table built, or the
\* exception raised.
AfterBuild(p, e) ==
    IF e # "ok" THEN "raised" ELSE IF p = "catalog" THEN "built" ELSE "rebuilt"

\* catalog = Catalog(orientation)
InitSeq ==
    /\ phase = "catalog"
    /\ \E orientation \in Orientations : cat = NewCatalog(orientation, A4)
    /\ err = "ok"
    /\ disk = "absent"
    /\ last = Call("Catalog", <<>>, None, None, Num("int", 0), Num("int", 0),
                   FALSE, NoFlags, NoCatalog, disk)

\* catalog.add_page(), before or between the tables.
AddPageBetween ==
    /\ phase \in {"catalog", "built"}
    /\ cat.page < MaxSeqPages
    /\ cat' = AddPage(cat)
    /\ err' = "ok"
    /\ last' = Call("add_page", <<>>, None, None, Num("int", 0), Num("int", 0),
                    FALSE, NoFlags, cat, disk)
    /\ UNCHANGED <<phase, disk>>

\* catalog.build_table(images, rows=rows, cols=cols), the first or a
\* further one on the same Catalog.
BuildTableAgain ==
    /\ phase \in {"catalog", "built"}
    /\ \E images \in TableImages, rows \in GridSizes, cols \in GridSizes :
         \E r \in {CallBuildTable(cat, {"rows", "cols"}, images, None, None,
                                  rows, cols)} :
             /\ cat' = r.c
             /\ err' = r.err
             /\ phase' = AfterBuild(phase, r.err)
             /\ last' = Call("build_table", images, None, None, rows, cols,
                             FALSE, NoFlags, cat, disk)
    /\ UNCHANGED disk

NextSeq ==
    \/ AddPageBetween
    \/ BuildTableAgain

SpecSeq == InitSeq /\ [][NextSeq]_vars

\* ----------------------------------------------------------------- claims
\* The last call was build_table, and its arguments.
IsBuild == last.op = "build_table"

N == Len(last.images)

R == PyInt(last.rows)

C == PyInt(last.cols)

\* labels and notes, where supplied, are as long as images.
LengthsAgree ==
    /\ last.labels.given => Len(last.labels.v) = N
    /\ last.notes.given => Len(last.notes.v) = N

\* The value is a whole number (an int, or an integer-valued float).
Whole(v) == v.v10 % 10 = 0

\* rows and cols are positive whole numbers.
GridValid ==
    /\ Whole(last.rows) /\ Whole(last.cols)
    /\ last.rows.v10 > 0 /\ last.cols.v10 > 0

\* The cell size build_table computes for a valid grid.
CellW == Epw(last.pre) \div C

CellH == (Eph(last.pre) - TableReserve * last.pre.k) \div R

\* build_table ran on a fresh Catalog right after one add_page().
AfterOneAddPage == IsBuild /\ last.pre.page = 1 /\ last.pre.draws = <<>>

\* The cell is at least as high as its label region, so that no region of
\* a cell reaches below the cell.
CellHoldsLabel == CellH >= LabelHeight(last.pre)

IsBorder(d) == d.op = "border"

IsLabel(d) == d.op = "label"

IsNote(d) == d.op = "note"

IsImageRegion(d) == d.op \in {"image", "text"}

Borders == SelectSeq(cat.draws, IsBorder)

LabelDraws == SelectSeq(cat.draws, IsLabel)

NoteDraws == SelectSeq(cat.draws, IsNote)

ImageDraws == SelectSeq(cat.draws, IsImageRegion)

C2_LengthMismatchRaisesFirst ==
    (IsBuild /\ ~LengthsAgree)
        => (err = "ValueError: same length" /\ cat = last.pre)

\* C2 witness: a mismatched call on a Catalog with an open page, with
\* images to draw and a grid that is otherwise valid.
C2_Witness ==
    /\ IsBuild /\ last.pre.page = 1 /\ N = 2 /\ GridValid
    /\ ~last.labels.given
    /\ last.notes.given /\ Len(last.notes.v) = 3
    /\ err = "ValueError: same length" /\ cat = last.pre

IsValueError == err \in {"ValueError: same length", "ValueError: integer"}

AsInt(v) == Num("int", v.v10)

\* C3: a rows or cols that is not integer-valued raises ValueError (the
\* integer one when the lengths agree) with the Catalog as before the call;
\* integer-valued floats give the outcome of the equal ints.
C3_VerifyInt ==
    IsBuild =>
        /\ (~Whole(last.rows) \/ ~Whole(last.cols))
              => /\ IsValueError
                 /\ cat = last.pre
                 /\ (LengthsAgree => err = "ValueError: integer")
        /\ (Whole(last.rows) /\ Whole(last.cols))
              => /\ err # "ValueError: integer"
                 /\ [c |-> cat, err |-> err]
                      = BuildTable(last.pre, last.images, last.labels,
                                   last.notes, AsInt(last.rows), AsInt(last.cols))

\* C3 witness: rows = 1.0 and cols = 2.0 lay out two cells in one row.
C3_WitnessFloat ==
    /\ IsBuild /\ last.pre.page = 1 /\ N = 2 /\ err = "ok"
    /\ last.rows = Num("float", 10) /\ last.cols = Num("float", 20)
    /\ Len(cat.cellcalls) = 2
    /\ cat.cellcalls[2].y0 = cat.cellcalls[1].y0
    /\ cat.cellcalls[2].x0 = cat.cellcalls[1].x0 + CellW

\* C4 as stated: rows or cols equal to 0 or negative is rejected with the
\* integer ValueError before any cell size is computed or cell drawn.
C4_NonPositiveRejected ==
    (IsBuild /\ LengthsAgree
        /\ Whole(last.rows) /\ Whole(last.cols)
        /\ (last.rows.v10 <= 0 \/ last.cols.v10 <= 0))
        => (err = "ValueError: integer" /\ cat = last.pre)

\* The failures the claim names: a missing file, unreadable image data.
OpensOrFailsCaught(img) ==
    OpenResult(img) \in {"ok", "FileNotFoundError", "UnidentifiedImageError"}

\* The display name as the specification defines it: a path's filename
\* component, else the image's filename attribute, else the fallback.
DisplayName(img) ==
    IF img.kind \in {"str", "Path", "bytes"} THEN img.name
    ELSE IF img.name # NoFilename THEN img.name
    ELSE Fallback

\* C5 as stated: when every image opens or fails as a missing file or as
\* unreadable image data, build_table returns, N cells are rendered in
\* input order, and a failing cell shows the path's base name as text while
\* the others show the image.
C5_DecodeFailureIsolated ==
    (IsBuild /\ last.pre.page >= 1 /\ GridValid
        /\ LengthsAgree
        /\ \A i \in 1..N : OpensOrFailsCaught(last.images[i]))
        => /\ err = "ok"
           /\ Len(cat.cellcalls) = N
           /\ Len(ImageDraws) = N
           /\ \A i \in 1..N :
                /\ ImageDraws[i].txt = DisplayName(last.images[i])
                /\ ImageDraws[i].op =
                     IF OpenResult(last.images[i]) = "ok" THEN "image" ELSE "text"

\* C6 as stated: a CLI run with image options, the output path absent or
\* --force given, reaches build_table, completes and writes the file.
C6_CliOptionsComplete ==
    (last.op = "main" /\ (last.predisk = "absent" \/ last.force))
        => (err = "ok" /\ disk = "pdf")

\* C7 as stated: with labels omitted the label of cell i is the display
\* name of image i, with notes omitted every note is the empty string;
\* supplied labels and notes are used unchanged.
C7_DerivedLabelsAndNotes ==
    (IsBuild /\ err = "ok" /\ last.pre.page >= 1)
        => /\ Len(LabelDraws) = N
           /\ \A i \in 1..N :
                LabelDraws[i].txt =
                    IF last.labels.given THEN last.labels.v[i]
                    ELSE DisplayName(last.images[i])
           /\ \A i \in 1..Len(NoteDraws) :
                ~last.notes.given => NoteDraws[i].note = <<>>

\* C8 as stated: an existing output path without --force makes main raise
\* FileExistsError with no Catalog created and the file unchanged;
\* otherwise main builds the catalog and writes it.
C8_RefuseOverwrite ==
    last.op = "main" =>
        IF last.predisk # "absent" /\ ~last.force
        THEN err = "FileExistsError" /\ cat = last.pre /\ disk = last.predisk
        ELSE err = "ok" /\ disk = "pdf"

\* The position the grid walk gives the i-th cell (i from 1).
WalkPage(i) == 1 + (i - 1) \div (R * C)

WalkX(i) == last.pre.l_margin + ((i - 1) % C) * CellW

WalkY(i) == last.pre.y + (((i - 1) \div C) % R) * CellH

GridWalk ==
    /\ Len(cat.cellcalls) = N
    /\ Len(Borders) = N
    /\ \A i \in 1..N :
         /\ cat.cellcalls[i].page0 = WalkPage(i)
         /\ cat.cellcalls[i].page1 = WalkPage(i)
         /\ cat.cellcalls[i].x0 = WalkX(i)
         /\ cat.cellcalls[i].y0 = WalkY(i)
         /\ Borders[i].page = WalkPage(i)
         /\ Borders[i].x = WalkX(i)
         /\ Borders[i].y = WalkY(i)

C10_CursorRestoredAsStated ==
    IsBuild =>
        \A i \in 1..Len(cat.cellcalls) :
            /\ cat.cellcalls[i].x1 = cat.cellcalls[i].x0
            /\ cat.cellcalls[i].y1 = cat.cellcalls[i].y0

\* C10 amended: the border box is drawn at the entry cursor with the full
\* cell size (w, h), and when _build_cell returns the cursor is one cell
\* width to the right of the entry position, at the same height.
C10_CursorAfterCell ==
    IsBuild =>
        /\ Len(Borders) = Len(cat.cellcalls)
        /\ \A i \in 1..Len(cat.cellcalls) :
             /\ Borders[i].x = cat.cellcalls[i].x0
             /\ Borders[i].y = cat.cellcalls[i].y0
             /\ Borders[i].w = LenDiv(Epw(last.pre), C)
             /\ Borders[i].h = LenDiv(Eph(last.pre) - TableReserve * last.pre.k, R)
             /\ cat.cellcalls[i].x1 = cat.cellcalls[i].x0 + Borders[i].w
             /\ cat.cellcalls[i].y1 = cat.cellcalls[i].y0

\* C10 witness: a cell with a two-line note was drawn in the second column.
C10_Witness ==
    /\ IsBuild /\ err = "ok" /\ Len(cat.cellcalls) >= 2 /\ C = 2 /\ GridValid
    /\ last.notes.given /\ Len(last.notes.v[1]) = 2
    /\ cat.cellcalls[2].x0 = last.pre.l_margin + CellW
    /\ cat.cellcalls[2].x1 = last.pre.l_margin + 2 * CellW

\* C11 as stated: for every cell build_table renders on a valid grid, the
\* height given to the image region, h - label height - note height, is
\* never negative, whatever the note text and the grid shape.
C11_ImageHeightNonNegative ==
    (IsBuild /\ GridValid)
        => /\ \A i \in 1..Len(cat.cellcalls) : cat.cellcalls[i].h_img >= 0
           /\ \A i \in 1..Len(ImageDraws) : ImageDraws[i].h >= 0

\* The last call was _insert_image on its own.
IsFit == last.op = "_insert_image"

IsPicture(d) == d.op = "picture"

PictureDraws == SelectSeq(cat.draws, IsPicture)

\* The truncation of a non-negative length to whole millimetres.
WholeMm(a, k) == (a \div k) * k

\* The size the claim gives for an image of px pixels in a w x h region:
\* scaled by w / im_w when im_w / im_h >= w / h, by h / im_h otherwise, and
\* truncated.
FitSize(px, width, height, k) ==
    IF px[1] * height >= width * px[2]
    THEN <<WholeMm(width, k), WholeMm((px[2] * width) \div px[1], k)>>
    ELSE <<WholeMm((px[1] * height) \div px[2], k), WholeMm(height, k)>>

\* The draw d is of the claimed size, no larger than the region, and at the
\* centring offsets from the region's corner (the cursor before the call).
FittedAndOffset(d) ==
    /\ <<d.w, d.h>> = FitSize(last.img.px, last.w, last.h, last.pre.k)
    /\ d.w <= last.w /\ d.h <= last.h
    /\ 2 * (d.x - last.pre.x) = last.w - d.w
    /\ 2 * (d.y - last.pre.y) = last.h - d.h

\* An image of the given size at (x, y) lies inside the region and has
\* equal margins left and right, and above and below.
InsideAndCentred(x, y, size) ==
    /\ x >= last.pre.x /\ x + size[1] <= last.pre.x + last.w
    /\ y >= last.pre.y /\ y + size[2] <= last.pre.y + last.h
    /\ 2 * (x - last.pre.x) + size[1] = last.w
    /\ 2 * (y - last.pre.y) + size[2] = last.h

OnPageOf(d) == ImageSize(<<d.w, d.h>>, last.img.px, last.pre.k)

\* C12 as stated: for an image of positive pixel size and a region of
\* positive width and height, _dims_to_fit scales by w / im_w or h / im_h
\* as the aspect ratios say, truncates, and stays within (w, h); the image
\* is drawn at the offsets ((w - scaled_w) / 2, (h - scaled_h) / 2), and so
\* lies entirely inside the region and is centred in it.
C12_ScaleToFit ==
    IsFit =>
        /\ err = "ok"
        /\ Len(PictureDraws) = 1
        /\ FittedAndOffset(PictureDraws[1])
        /\ InsideAndCentred(PictureDraws[1].x, PictureDraws[1].y,
                            OnPageOf(PictureDraws[1]))

\* The part of C12 about _dims_to_fit and the offsets alone.
C12_FittedAndOffset ==
    IsFit => (err = "ok" /\ Len(PictureDraws) = 1
                /\ FittedAndOffset(PictureDraws[1]))

\* The rest of C12 where neither truncated dimension is 0.
C12_InsideUnlessZero ==
    (IsFit /\ err = "ok" /\ PictureDraws[1].w > 0 /\ PictureDraws[1].h > 0)
        => InsideAndCentred(PictureDraws[1].x, PictureDraws[1].y,
                            OnPageOf(PictureDraws[1]))

\* The border box d lies inside the printable area of its page.
InsidePrintable(d) ==
    /\ cat.l_margin <= d.x
    /\ d.x + d.w <= cat.l_margin + Epw(cat)
    /\ d.y + d.h <= PageBreakTrigger(cat)

\* The border boxes on the page and at the height of d: the row of d.
SameRow(d) ==
    {j \in 1..Len(Borders) : Borders[j].page = d.page /\ Borders[j].y = d.y}

\* The border boxes the last build_table call drew.
NewBorders == (Len(SelectSeq(last.pre.draws, IsBorder)) + 1)..Len(Borders)

\* C13 as stated: after any sequence of add_page() and successful
\* build_table() calls on one Catalog, every cell border box lies inside
\* the printable area of its page, and no row holds more than cols cells.
C13_BordersInsidePage ==
    (IsBuild /\ err = "ok")
        => /\ \A i \in 1..Len(Borders) : InsidePrintable(Borders[i])
           /\ \A i \in NewBorders : Cardinality(SameRow(Borders[i])) <= C

\* The tables before the last one ended their last row, or a page was
\* added after them: the last build_table started at the left margin.
StartedAtLeftMargin == last.pre.x = last.pre.l_margin

\* C13 for the first table of a Catalog, and for a table that starts at
\* the left margin after tables that lie inside the printable area.
C13_InsideFromLeftMargin ==
    (IsBuild /\ err = "ok" /\ StartedAtLeftMargin
        /\ \A j \in 1..Len(last.pre.draws) :
              IsBorder(last.pre.draws[j]) => InsidePrintable(last.pre.draws[j]))
        => /\ \A i \in 1..Len(Borders) : InsidePrintable(Borders[i])
           /\ \A i \in NewBorders : Cardinality(SameRow(Borders[i])) <= C

====
